---- MODULE Spec2Model ----
(***************************************************************************)
(* Conway's Game of Life (crate congol): the Universe grid engine          *)
(* (src/src/universe.rs) and the Game driver (src/src/lib.rs).             *)
(*                                                                         *)
(* A Universe is the record [width, height, cells]; cells is the Vec<bool> *)
(* as a sequence, so Vec index i is cells[i + 1].  Option<T> is modelled   *)
(* as a sequence: None is << >>, Some(v) is <<v>>.  A String is the        *)
(* sequence of its characters.  Each action is one call made by the        *)
(* single-threaded caller; the loop of next_generation and the traversal   *)
(* of an iterator advance one item per step.  A finished call leaves its   *)
(* arguments and result in `last` and the grid it started from in `old`    *)
(* (pc = "returned") until the caller goes on (Resume).  `seeded` tells     *)
(* whether a set call of the caller has written a cell since construction; *)
(* `earlier` is how far the traversal had advanced that the current        *)
(* traversal replaced (0 when it replaced none).                           *)
(***************************************************************************)
EXTENDS Integers, Sequences, FiniteSets

VARIABLES universe, pc, previous_universe, index, writes, it_index, items, last, old,
          seeded, earlier

vars == <<universe, pc, previous_universe, index, writes, it_index, items, last, old,
          seeded, earlier>>

\* Largest width, height and area (width * height) of the explored grids.
MaxW == 3
MaxH == 3
MaxCells == 9
\* How many calls of next() past the end of a traversal are explored.
MaxPastEnd == 1

None == << >>
Some(v) == <<v>>

\* vec![false; width * height]
AllDead(n) == [i \in 1..n |-> FALSE]

\* Universe::new allocating width + height cells.
UniverseNew_sum(w, h) == [width |-> w, height |-> h, cells |-> AllDead(w + h)]

\* Universe::new
UniverseNew(w, h) == [width |-> w, height |-> h, cells |-> AllDead(w * h)]

\* The value of a local that holds no universe (before clone, after drop).
NoUniverse == [width |-> 0, height |-> 0, cells |-> << >>]

\* Vec::get
VecGet(v, i) == IF i >= 0 /\ i < Len(v) THEN Some(v[i + 1]) ELSE None

\* Universe::get indexing column-major (x * width + y).
get_transposed(u, x, y) ==
    IF x < 0 \/ y < 0
    THEN None
    ELSE LET cell_index == (x * u.width) + y
         IN  VecGet(u.cells, cell_index)

\* Universe::get: only negative coordinates are rejected before indexing.
get(u, x, y) ==
    IF x < 0 \/ y < 0
    THEN None
    ELSE LET cell_index == (y * u.width) + x
         IN  VecGet(u.cells, cell_index)

\* Universe::set succeeds exactly when Vec::get_mut returns Some.
SetOk(u, x, y) == y * u.width + x < Len(u.cells)

\* Universe::set writing at the column-major index (x * width + y).
set_transposed(u, x, y, value) == [u EXCEPT !.cells[x * u.width + y + 1] = value]

\* Universe::set on the non-panicking path.
set(u, x, y, value) == [u EXCEPT !.cells[y * u.width + x + 1] = value]

Offsets == {-1, 0, 1}

\* Universe::count_neighbors: the 8 slots of `neighbors`, one per (i, j).
count_neighbors(u, x, y) ==
    Cardinality({ o \in (Offsets \X Offsets) \ {<<0, 0>>} :
                    get(u, x + o[1], y + o[2]) = Some(TRUE) })

\* determine_new_state with birth on three or more neighbours.
determine_new_state_birth_ge3(is_cell_alive, neighbor_count) ==
    IF is_cell_alive
    THEN neighbor_count \in {2, 3}
    ELSE neighbor_count >= 3

\* determine_new_state with the two arms of the dead cell swapped.
determine_new_state_dead_swapped(is_cell_alive, neighbor_count) ==
    IF is_cell_alive
    THEN neighbor_count \in {2, 3}
    ELSE neighbor_count # 3

\* determine_new_state
determine_new_state(is_cell_alive, neighbor_count) ==
    IF is_cell_alive
    THEN CASE neighbor_count \in {0, 1} -> FALSE
           [] neighbor_count \in {2, 3} -> TRUE
           [] OTHER -> FALSE
    ELSE CASE neighbor_count = 3 -> TRUE
           [] OTHER -> FALSE

\* The column computed by reducing modulo the height instead of the width.
IterX_by_height(u, i) == i % u.height

\* UniverseIterator::next, the coordinates computed for `index`.
IterX(u, i) == i % u.width

\* The row computed by dividing by the height instead of the width.
IterY_by_height(u, i) == i \div u.height

IterY(u, i) == i \div u.width

\* format_cell with the end of a row tested on i instead of i + 1.
format_cell_off_by_one(cell, i, width) ==
    LET is_end_of_row == i % width = 0
        cell_string == IF cell THEN <<"X">> ELSE <<" ">>
    IN  IF is_end_of_row THEN cell_string \o <<"\n">> ELSE cell_string

\* format_cell
format_cell(cell, i, width) ==
    LET is_end_of_row == (i + 1) % width = 0
        cell_string == IF cell THEN <<"X">> ELSE <<" ">>
    IN  IF is_end_of_row THEN cell_string \o <<"\n">> ELSE cell_string

\* Display for Universe: the cells enumerated, mapped and collected.
RECURSIVE Collect(_, _)
Collect(u, n) ==
    IF n = 0 THEN << >>
    ELSE Collect(u, n - 1) \o format_cell(u.cells[n], n - 1, u.width)

to_string(u) == Collect(u, Len(u.cells))

\* The record of the most recent call: its arguments and what it returned.
Call(op, x, y, value, n, ret) ==
    [op |-> op, x |-> x, y |-> y, value |-> value, n |-> n, ret |-> ret]

NoCall == Call("new", 0, 0, FALSE, 0, None)

Init ==
    /\ \E w \in 0..MaxW, h \in 0..MaxH :
          /\ w * h <= MaxCells
          /\ universe = UniverseNew(w, h)
    /\ pc = "idle"
    /\ previous_universe = NoUniverse
    /\ index = 0
    /\ writes = << >>
    /\ it_index = 0
    /\ items = << >>
    /\ last = NoCall
    /\ old = universe
    /\ seeded = FALSE
    /\ earlier = 0

\* universe.set(x, y, value) by the caller.
Set(x, y, value) ==
    /\ pc = "idle"
    /\ old' = universe
    /\ last' = Call("set", x, y, value, 0, None)
    /\ IF SetOk(universe, x, y)
       THEN /\ universe' = set(universe, x, y, value)
            /\ pc' = "returned"
            /\ seeded' = TRUE
       ELSE /\ universe' = universe
            /\ pc' = "panicked"
            /\ seeded' = seeded
    /\ UNCHANGED <<previous_universe, index, writes, it_index, items, earlier>>

\* universe.get(x, y) by the caller.
Get(x, y) ==
    /\ pc = "idle"
    /\ old' = universe
    /\ last' = Call("get", x, y, FALSE, 0, get(universe, x, y))
    /\ pc' = "returned"
    /\ UNCHANGED <<universe, previous_universe, index, writes, it_index, items,
                   seeded, earlier>>

\* universe.count_neighbors(x, y) by the caller, for a cell of the grid.
CountNeighbors(x, y) ==
    /\ pc = "idle"
    /\ x < universe.width /\ y < universe.height
    /\ old' = universe
    /\ last' = Call("count_neighbors", x, y, FALSE, count_neighbors(universe, x, y), None)
    /\ pc' = "returned"
    /\ UNCHANGED <<universe, previous_universe, index, writes, it_index, items,
                   seeded, earlier>>

\* Game::next_generation up to the loop: the clone and the iterator over it.
NextGenerationBegin ==
    /\ pc = "idle"
    /\ previous_universe' = universe
    /\ index' = 0
    /\ writes' = [i \in 1..Len(universe.cells) |-> 0]
    /\ pc' = "sweep"
    /\ old' = universe
    /\ last' = Call("next_generation", 0, 0, FALSE, 0, None)
    /\ UNCHANGED <<universe, it_index, items, seeded, earlier>>

\* The loop body reading the grid being written instead of the clone.
SweepStepInPlace ==
    /\ pc = "sweep"
    /\ index < Len(previous_universe.cells)
    /\ LET x == IterX(previous_universe, index)
           y == IterY(previous_universe, index)
           cell == get(universe, x, y)
       IN  IF cell = None
           THEN /\ pc' = "panicked"
                /\ UNCHANGED <<universe, writes, last>>
           ELSE LET cell_neighbor_count == count_neighbors(universe, x, y)
                    new_state == determine_new_state(cell[1], cell_neighbor_count)
                IN  /\ last' = Call("next_generation", x, y, cell[1],
                                    cell_neighbor_count, Some(new_state))
                    /\ IF SetOk(universe, x, y)
                       THEN /\ universe' = set(universe, x, y, new_state)
                            /\ writes' = [writes EXCEPT ![y * universe.width + x + 1] = @ + 1]
                            /\ pc' = pc
                       ELSE /\ pc' = "panicked"
                            /\ UNCHANGED <<universe, writes>>
    /\ index' = index + 1
    /\ UNCHANGED <<previous_universe, it_index, items, old, seeded, earlier>>

\* One iteration of the loop of next_generation.
SweepStep ==
    /\ pc = "sweep"
    /\ index < Len(previous_universe.cells)
    /\ LET x == IterX(previous_universe, index)
           y == IterY(previous_universe, index)
           cell == get(previous_universe, x, y)
       IN  IF cell = None
           THEN /\ pc' = "panicked"
                /\ UNCHANGED <<universe, writes, last>>
           ELSE LET cell_neighbor_count == count_neighbors(previous_universe, x, y)
                    new_state == determine_new_state(cell[1], cell_neighbor_count)
                IN  /\ last' = Call("next_generation", x, y, cell[1],
                                    cell_neighbor_count, Some(new_state))
                    /\ IF SetOk(universe, x, y)
                       THEN /\ universe' = set(universe, x, y, new_state)
                            /\ writes' = [writes EXCEPT ![y * universe.width + x + 1] = @ + 1]
                            /\ pc' = pc
                       ELSE /\ pc' = "panicked"
                            /\ UNCHANGED <<universe, writes>>
    /\ index' = index + 1
    /\ UNCHANGED <<previous_universe, it_index, items, old, seeded, earlier>>

\* The iterator returns None: the loop ends, the clone is dropped.
SweepEnd ==
    /\ pc = "sweep"
    /\ index >= Len(previous_universe.cells)
    /\ pc' = "returned"
    /\ previous_universe' = NoUniverse
    /\ index' = 0
    /\ last' = Call("next_generation", 0, 0, FALSE, 0, None)
    /\ UNCHANGED <<universe, writes, it_index, items, old, seeded, earlier>>

\* iter() handing out an iterator that goes on where the earlier one was.
IterNoReset ==
    /\ pc \in {"idle", "iterating"}
    /\ pc' = "iterating"
    /\ it_index' = it_index
    /\ items' = << >>
    /\ earlier' = it_index
    /\ old' = universe
    /\ last' = Call("iter", 0, 0, FALSE, 0, None)
    /\ UNCHANGED <<universe, previous_universe, index, writes, seeded>>

\* universe.iter() by the caller; an earlier iterator is dropped.
Iter ==
    /\ pc \in {"idle", "iterating"}
    /\ pc' = "iterating"
    /\ it_index' = 0
    /\ items' = << >>
    /\ earlier' = it_index
    /\ old' = universe
    /\ last' = Call("iter", 0, 0, FALSE, 0, None)
    /\ UNCHANGED <<universe, previous_universe, index, writes, seeded>>

\* next() on the caller's iterator.
IterNext ==
    /\ pc = "iterating"
    /\ it_index < Len(universe.cells) + MaxPastEnd
    /\ it_index' = it_index + 1
    /\ IF it_index < Len(universe.cells)
       THEN LET x == IterX(universe, it_index)
                y == IterY(universe, it_index)
                cell == get(universe, x, y)
            IN  IF cell = None
                THEN /\ pc' = "panicked"
                     /\ UNCHANGED <<items, last>>
                ELSE /\ items' = Append(items, <<x, y, cell[1]>>)
                     /\ last' = Call("next", x, y, cell[1], 0, Some(TRUE))
                     /\ pc' = pc
       ELSE /\ last' = Call("next", 0, 0, FALSE, 0, None)
            /\ UNCHANGED <<items, pc>>
    /\ UNCHANGED <<universe, previous_universe, index, writes, old, seeded, earlier>>

\* The caller's iterator goes out of scope.
IterDrop ==
    /\ pc = "iterating"
    /\ pc' = "idle"
    /\ it_index' = 0
    /\ items' = << >>
    /\ last' = Call("drop", 0, 0, FALSE, 0, None)
    /\ earlier' = 0
    /\ UNCHANGED <<universe, previous_universe, index, writes, old, seeded>>

\* The caller has looked at the result of the call and goes on.
Resume ==
    /\ pc = "returned"
    /\ pc' = "idle"
    /\ last' = NoCall
    /\ old' = universe
    /\ UNCHANGED <<universe, previous_universe, index, writes, it_index, items,
                   seeded, earlier>>

\* game.to_string(): Display for Game delegates to Display for Universe.
Render ==
    /\ pc = "idle"
    /\ old' = universe
    /\ last' = Call("to_string", 0, 0, FALSE, 0, to_string(universe))
    /\ pc' = "returned"
    /\ UNCHANGED <<universe, previous_universe, index, writes, it_index, items,
                   seeded, earlier>>

Next ==
    \/ \E x \in 0..MaxW, y \in 0..MaxH, value \in BOOLEAN : Set(x, y, value)
    \/ \E x \in -1..MaxW, y \in -1..MaxH : Get(x, y)
    \/ \E x \in 0..MaxW, y \in 0..MaxH : CountNeighbors(x, y)
    \/ NextGenerationBegin
    \/ SweepStep
    \/ SweepEnd
    \/ Iter
    \/ IterNext
    \/ IterDrop
    \/ Render
    \/ Resume

Spec == Init /\ [][Next]_vars

\* next_generation is a synchronous loop: once called, its iterations and its
\* exit are taken without waiting for the caller.
FairSpec == Spec /\ WF_vars(SweepStep) /\ WF_vars(SweepEnd)

(***************************************************************************)
(* The rules of the game as the documentation states them, against which   *)
(* the operations above are compared.                                      *)
(***************************************************************************)

InGrid(u, x, y) == 0 <= x /\ x < u.width /\ 0 <= y /\ y < u.height

GridCells(u) == (0..(u.width - 1)) \X (0..(u.height - 1))

\* The state of the cell (x, y) of the grid, stored at index y * width + x.
CellAlive(u, x, y) == u.cells[y * u.width + x + 1]

\* The live cells among the Moore neighbours of (x, y) that lie in the grid.
LiveNeighbours(u, x, y) ==
    Cardinality({ o \in (Offsets \X Offsets) \ {<<0, 0>>} :
                    /\ InGrid(u, x + o[1], y + o[2])
                    /\ CellAlive(u, x + o[1], y + o[2]) })

\* The four rules.
RuleTable(alive, n) == (alive /\ n \in {2, 3}) \/ (~alive /\ n = 3)

Returned(op) == pc = "returned" /\ last.op = op

\* The set of live cells of a grid, as coordinate pairs.
LiveSet(u) == { c \in GridCells(u) : CellAlive(u, c[1], c[2]) }

\* C1: after one next_generation on a grid of width >= 1 and height >= 1,
\* every cell holds the four-rule result of its pre-tick state and the number
\* of pre-tick live Moore neighbours inside the grid (no wraparound).
C1_NextGenerationFollowsRules ==
    (Returned("next_generation") /\ old.width >= 1 /\ old.height >= 1) =>
        \A c \in GridCells(old) :
            CellAlive(universe, c[1], c[2]) =
                RuleTable(CellAlive(old, c[1], c[2]), LiveNeighbours(old, c[1], c[2]))

\* C2: count_neighbors(x, y) of a cell of the grid is the number of live cells
\* among its Moore neighbours that lie inside the grid; positions off the grid
\* contribute 0 and the cell itself is not counted.
C2_CountNeighborsInGridOnly ==
    Returned("count_neighbors") =>
        last.n = LiveNeighbours(universe, last.x, last.y)

\* The value the tick assigns to the cell at Vec index k: the rule applied to
\* the snapshot's cell and the snapshot's neighbour count.
TickValue(u, k) ==
    determine_new_state(u.cells[k + 1], count_neighbors(u, IterX(u, k), IterY(u, k)))

\* C3: tick isolation.  During a sweep the snapshot stays the grid the tick
\* started from; the cells already swept hold the value computed from the
\* snapshot and were written once, the cells not yet swept hold their pre-tick
\* value and were not written; after the sweep every cell was written once.
C3_TickIsolation ==
    /\ pc = "sweep" =>
        /\ previous_universe = old
        /\ universe.width = old.width /\ universe.height = old.height
        /\ \A i \in 1..Len(old.cells) :
            IF i <= index
            THEN universe.cells[i] = TickValue(old, i - 1) /\ writes[i] = 1
            ELSE universe.cells[i] = old.cells[i] /\ writes[i] = 0
    /\ Returned("next_generation") =>
        \A i \in 1..Len(old.cells) :
            universe.cells[i] = TickValue(old, i - 1) /\ writes[i] = 1

\* A sweep under way in which a cell already written changed state and is a
\* neighbour of the cell swept next.
C3_Witness ==
    /\ pc = "sweep"
    /\ index >= 1 /\ index < Len(old.cells)
    /\ universe.cells[index] # old.cells[index]
    /\ IterY(old, index) = IterY(old, index - 1)
    /\ TickValue(universe, index) # TickValue(old, index)

\* C4: set(x, y, value) with x >= width or y >= height fails fatally and
\* leaves every cell unchanged.
C4_SetOutOfBoundsFails ==
    (last.op = "set" /\ (last.x >= old.width \/ last.y >= old.height)) =>
        pc = "panicked" /\ universe = old

\* C5: get(x, y) returns the state of the cell (x, y) when it lies in the grid
\* and absent for every other pair.
C5_GetAbsentOffGrid ==
    Returned("get") =>
        last.ret = IF InGrid(universe, last.x, last.y)
                   THEN Some(CellAlive(universe, last.x, last.y))
                   ELSE None

\* C6: determine_new_state agrees with the rule table on all 18 pairs of a
\* state and a count in 0..8, and so does every state the sweep computes.
C6_TransitionTable ==
    /\ \A a \in BOOLEAN, n \in 0..8 : determine_new_state(a, n) = RuleTable(a, n)
    /\ (pc = "sweep" /\ last.ret # None) =>
            last.ret = Some(RuleTable(last.value, last.n))

\* The sweep has met a dead cell with four live neighbours and left it dead.
C6_Witness ==
    /\ pc = "sweep"
    /\ last.ret = Some(FALSE)
    /\ ~last.value
    /\ last.n = 4

\* The grid's only live cells are the 2x2 block with top-left corner (x, y).
IsBlock(u, x, y) ==
    /\ x + 1 < u.width /\ y + 1 < u.height
    /\ LiveSet(u) = {<<x, y>>, <<x + 1, y>>, <<x, y + 1>>, <<x + 1, y + 1>>}

\* C7: a grid of width >= 2 and height >= 2 whose only live cells are a 2x2
\* block is the same grid after next_generation (hence after any number).
C7_BlockIsStill ==
    (/\ Returned("next_generation")
     /\ \E c \in GridCells(old) : IsBlock(old, c[1], c[2])) =>
        universe = old

\* C8: a horizontal triple centred on (x, y), 1 <= x <= width-2 and
\* 1 <= y <= height-2, becomes the vertical triple centred on (x, y) in one
\* next_generation (and the vertical one the horizontal one again).
Horizontal(x, y) == {<<x - 1, y>>, <<x, y>>, <<x + 1, y>>}
Vertical(x, y) == {<<x, y - 1>>, <<x, y>>, <<x, y + 1>>}
Interior(u, x, y) == 1 <= x /\ x <= u.width - 2 /\ 1 <= y /\ y <= u.height - 2

C8_BlinkerOscillates ==
    Returned("next_generation") =>
        \A c \in GridCells(old) :
            Interior(old, c[1], c[2]) =>
                /\ LiveSet(old) = Horizontal(c[1], c[2]) =>
                        LiveSet(universe) = Vertical(c[1], c[2])
                /\ LiveSet(old) = Vertical(c[1], c[2]) =>
                        LiveSet(universe) = Horizontal(c[1], c[2])

\* C9: a traversal of a W x H grid yields item k (k = 0..W*H-1) as
\* (k mod W, k div W, state of that cell), returns None exactly after W*H
\* items, and then every coordinate pair of the grid has appeared exactly
\* once and no other pair has appeared.
C9_IterRowMajor ==
    pc = "iterating" =>
        LET W == universe.width
            H == universe.height
        IN  /\ Len(items) = IF it_index <= W * H THEN it_index ELSE W * H
            /\ \A k \in 1..Len(items) :
                /\ items[k][1] = (k - 1) % W
                /\ items[k][2] = (k - 1) \div W
                /\ InGrid(universe, items[k][1], items[k][2])
                /\ items[k][3] = CellAlive(universe, items[k][1], items[k][2])
            /\ (last.op = "next" /\ last.ret = None) <=> it_index > W * H
            /\ it_index > W * H =>
                /\ Len(items) = W * H
                /\ { <<items[k][1], items[k][2]>> : k \in 1..Len(items) } = GridCells(universe)
                /\ \A j, k \in 1..Len(items) :
                      (items[j][1] = items[k][1] /\ items[j][2] = items[k][2]) => j = k

\* A traversal of a 2 x 3 grid with live and dead cells has returned None.
C9_Witness ==
    /\ pc = "iterating"
    /\ universe.width = 2 /\ universe.height = 3
    /\ last.op = "next" /\ last.ret = None
    /\ Len(items) = 6
    /\ items[4] = <<1, 1, TRUE>>
    /\ items[5] = <<0, 2, FALSE>>

\* The layout of the rendered text: H rows of W cell characters and a newline.
RowsOfCells(u, text) ==
    /\ Len(text) = u.width * u.height + u.height
    /\ \A y \in 0..(u.height - 1) :
        /\ \A x \in 0..(u.width - 1) :
              text[y * (u.width + 1) + x + 1] = IF CellAlive(u, x, y) THEN "X" ELSE " "
        /\ text[y * (u.width + 1) + u.width + 1] = "\n"

\* C10 as stated: the rendered text of every universe has W*H + H characters,
\* H rows of W cell characters each followed by a newline, 'X' exactly at the
\* live cells, and nothing after the last row's newline.
C10_RenderAnyWidth ==
    Returned("to_string") => RowsOfCells(universe, last.ret)

\* C10 amended: the same for every universe of width >= 1.
C10_RenderRows ==
    (Returned("to_string") /\ universe.width >= 1) => RowsOfCells(universe, last.ret)

\* A 2 x 3 grid with live and dead cells has been rendered.
C10_Witness ==
    /\ Returned("to_string")
    /\ universe.width = 2 /\ universe.height = 3
    /\ last.ret = <<"X", " ", "\n", " ", "X", "\n", "X", "X", "\n">>

\* C11: Game::new yields a universe whose cells are all dead, and as long as
\* the caller has not seeded it the cells stay dead through every
\* next_generation, at every point of every sweep.
C11_AllDeadFixedPoint ==
    ~seeded =>
        /\ Len(universe.cells) = universe.width * universe.height
        /\ \A i \in 1..Len(universe.cells) : ~universe.cells[i]

\* A 3 x 3 game that was never seeded has completed a next_generation.
C11_Witness ==
    /\ ~seeded
    /\ Returned("next_generation")
    /\ universe.width = 3 /\ universe.height = 3
    /\ \A i \in 1..9 : writes[i] = 1

\* The layout of a universe: width * height cells, the cell (x, y) of the grid
\* at Vec index y * width + x, each index belonging to one cell of the grid.
RowMajorLayout(u) ==
    /\ Len(u.cells) = u.width * u.height
    /\ \A c \in GridCells(u) :
        /\ c[2] * u.width + c[1] \in 0..(Len(u.cells) - 1)
        /\ get(u, c[1], c[2]) = Some(u.cells[c[2] * u.width + c[1] + 1])
    /\ \A i \in 0..(Len(u.cells) - 1) :
        \E c \in GridCells(u) :
            /\ c[2] * u.width + c[1] = i
            /\ \A e \in GridCells(u) : e[2] * u.width + e[1] = i => e = c

\* C12: in every state reached from Game::new by set and next_generation
\* calls the universe has the row-major layout, and no step changes its width
\* or its height, which therefore stay the ones given at construction.
C12_DimensionsAndLayout ==
    /\ [](RowMajorLayout(universe) /\ (pc = "sweep" => RowMajorLayout(previous_universe)))
    /\ [][/\ universe'.width = universe.width
          /\ universe'.height = universe.height]_vars

\* A seeded 2 x 3 game whose grid a next_generation has changed.
C12_Witness ==
    /\ seeded
    /\ Returned("next_generation")
    /\ universe.width = 2 /\ universe.height = 3
    /\ universe.cells # old.cells

\* C13: next_generation never fails.  At every point of a sweep the next
\* coordinate pair of the snapshot's traversal is a cell of the live grid that
\* the snapshot can read and set can write, so the only panic is the one of a
\* set call of the caller; and every sweep that has begun returns.
C13_SweepNeverFails ==
    /\ [](pc = "panicked" => last.op = "set")
    /\ [](pc = "sweep" =>
            /\ index <= Len(previous_universe.cells)
            /\ index < Len(previous_universe.cells) =>
                LET x == IterX(previous_universe, index)
                    y == IterY(previous_universe, index)
                IN  /\ InGrid(universe, x, y)
                    /\ get(previous_universe, x, y) # None
                    /\ SetOk(universe, x, y))
    /\ (pc = "sweep") ~> Returned("next_generation")

\* A sweep over a 2 x 3 grid with live cells has reached its last cell.
C13_Witness ==
    /\ pc = "sweep"
    /\ universe.width = 2 /\ universe.height = 3
    /\ index = 5
    /\ LiveSet(old) # {}

\* C14: set(x, y, v) on a cell of the grid returns, after it get(x, y) is v,
\* every other cell has the state it had before, and the width, the height
\* and the number of cells are the same.
C14_SetChangesOneCell ==
    (last.op = "set" /\ InGrid(old, last.x, last.y)) =>
        /\ pc = "returned"
        /\ get(universe, last.x, last.y) = Some(last.value)
        /\ \A c \in GridCells(old) \ {<<last.x, last.y>>} :
              CellAlive(universe, c[1], c[2]) = CellAlive(old, c[1], c[2])
        /\ universe.width = old.width /\ universe.height = old.height
        /\ Len(universe.cells) = Len(old.cells)

\* On a 2 x 3 grid with (0,1) alive, set(1, 2, true) has brought (1,2) to life.
C14_Witness ==
    /\ Returned("set")
    /\ old.width = 2 /\ old.height = 3
    /\ last.x = 1 /\ last.y = 2 /\ last.value
    /\ ~CellAlive(old, 1, 2)
    /\ CellAlive(old, 0, 1)
    /\ CellAlive(universe, 1, 2)

\* The items of a whole traversal of u, starting at the cell (0, 0).
FullSequence(u) ==
    [k \in 1..Len(u.cells) |-> <<(k - 1) % u.width, (k - 1) \div u.width, u.cells[k]>>]

Min(a, b) == IF a <= b THEN a ELSE b

\* C15: a traversal is read-only and restartable.  While an iterator is
\* advanced the universe is the one iter() was called on; iter() hands out an
\* iterator at index 0 that has yielded nothing; and what a traversal has
\* yielded is the beginning of the full sequence from (0, 0), however far the
\* traversal it replaced had advanced.
C15_TraversalRestartable ==
    pc = "iterating" =>
        /\ universe = old
        /\ last.op = "iter" => (it_index = 0 /\ items = << >>)
        /\ items = SubSeq(FullSequence(universe), 1,
                          Min(it_index, Len(universe.cells)))

\* A traversal of a 2 x 3 grid with a live cell, begun when an earlier one
\* had yielded 3 of the 6 items, has yielded all 6 items.
C15_Witness ==
    /\ pc = "iterating"
    /\ universe.width = 2 /\ universe.height = 3
    /\ earlier = 3
    /\ Len(items) = 6
    /\ items[1] = <<0, 0, FALSE>>
    /\ items[6] = <<1, 2, TRUE>>

Degenerate(u) == u.width = 0 \/ u.height = 0

\* C16: a universe of width 0 or height 0 is constructed and has no cells; on
\* it every get returns absent, every set panics and changes nothing, a
\* traversal yields no item, and next_generation sweeps nothing, returns and
\* leaves the universe as it was.
C16_DegenerateDimensions ==
    Degenerate(universe) =>
        /\ universe.cells = << >>
        /\ Returned("get") => last.ret = None
        /\ last.op = "set" => (pc = "panicked" /\ universe = old)
        /\ pc = "panicked" => last.op = "set"
        /\ pc = "iterating" =>
            /\ items = << >>
            /\ last.op = "next" => last.ret = None
        /\ pc = "sweep" => (index = 0 /\ universe = old /\ ENABLED SweepEnd)
        /\ Returned("next_generation") => universe = old

\* next_generation has returned on a universe of width 0 and height 2.
C16_Witness ==
    /\ Returned("next_generation")
    /\ universe.width = 0 /\ universe.height = 2

\* The shape of the state.
TypeOK ==
    /\ pc \in {"idle", "sweep", "iterating", "returned", "panicked"}
    /\ universe.width \in 0..MaxW
    /\ universe.height \in 0..MaxH
    /\ Len(universe.cells) = universe.width * universe.height
====
